---- MODULE Spec2Model ----
(***************************************************************************)
(* Model of msg.c: parse_page (line dispatch, .TH title tokenizer, growth  *)
(* managed arrays) and print_page_to / print_link_to.                      *)
(*                                                                         *)
(* Text (String_View) is a sequence of one-character strings.              *)
(***************************************************************************)
EXTENDS Integers, Sequences, FiniteSets, TLC

VARIABLES file, src, page, pc, err, out, wild, i, j

vars == <<file, src, page, pc, err, out, wild, i, j>>

(***************************************************************************)
(* Bounds of the model.                                                    *)
(***************************************************************************)
MaxLines == 3
MaxRep == 9
MaxTokens == 6

(***************************************************************************)
(* Program constants.                                                      *)
(***************************************************************************)
Title_Fields == 5
InitialCapacity == 8

(***************************************************************************)
(* sv.h String_View helpers.                                               *)
(***************************************************************************)
\* the vertical tab, which has no escape in a TLA+ string, is left out
isspace(c) == c \in {" ", "\t", "\n", "\f", "\r"}

sv_trim_left(sv) ==
  LET n == CHOOSE k \in 0..Len(sv) :
             /\ \A m \in 1..k : isspace(sv[m])
             /\ (k < Len(sv) => ~isspace(sv[k + 1]))
  IN SubSeq(sv, n + 1, Len(sv))

sv_trim_right(sv) ==
  LET n == CHOOSE k \in 0..Len(sv) :
             /\ \A m \in (Len(sv) - k + 1)..Len(sv) : isspace(sv[m])
             /\ (k < Len(sv) => ~isspace(sv[Len(sv) - k]))
  IN SubSeq(sv, 1, Len(sv) - n)

sv_trim(sv) == sv_trim_right(sv_trim_left(sv))

\* result: the text before the first delim; rest: the text after it
sv_chop_by_delim(sv, delim) ==
  LET n == CHOOSE k \in 0..Len(sv) :
             /\ \A m \in 1..k : sv[m] # delim
             /\ (k < Len(sv) => sv[k + 1] = delim)
  IN [result |-> SubSeq(sv, 1, n),
      rest   |-> IF n < Len(sv) THEN SubSeq(sv, n + 2, Len(sv)) ELSE <<>>]

sv_chop_left(sv, n) ==
  LET m == IF n > Len(sv) THEN Len(sv) ELSE n
  IN SubSeq(sv, m + 1, Len(sv))

sv_starts_with(sv, prefix) ==
  /\ Len(prefix) <= Len(sv)
  /\ SubSeq(sv, 1, Len(prefix)) = prefix

(***************************************************************************)
(* Data: Command, Section, Page.  Zeroed memory of each element type.      *)
(***************************************************************************)
Text == 0
Link == 1

ZeroCommand == [type |-> Text, value |-> <<>>]

ZeroSection == [name |-> <<>>, commands |-> <<>>,
                commands_count |-> 0, commands_capacity |-> 0]

ZeroPage == [title |-> [k \in 1..Title_Fields |-> <<>>], sections |-> <<>>,
             sections_count |-> 0, sections_capacity |-> 0]

(***************************************************************************)
(* ensure_enough_space: mem is the array's slots (Len(mem) = capacity);    *)
(* growing keeps the old slots and zeroes the new ones.                    *)
(***************************************************************************)
\* variant: growing takes a fresh zeroed block and does not keep the old slots
ensure_enough_space_Fresh(mem, zero, desired_count, capacity) ==
  IF desired_count < capacity
  THEN [mem |-> mem, capacity |-> capacity]
  ELSE LET new_capacity == IF capacity > 0 THEN desired_count * 2
                                           ELSE InitialCapacity
       IN [mem |-> [k \in 1..new_capacity |-> zero],
           capacity |-> new_capacity]

ensure_enough_space(mem, zero, desired_count, capacity) ==
  IF desired_count < capacity
  THEN [mem |-> mem, capacity |-> capacity]
  ELSE LET new_capacity == IF capacity > 0 THEN desired_count * 2
                                           ELSE InitialCapacity
       IN [mem |-> mem \o [k \in 1..(new_capacity - capacity) |-> zero],
           capacity |-> new_capacity]

\* Push(page, sections); Back(page, sections)->name = name
PushSection(p, name) ==
  LET count == p.sections_count + 1
      grown == ensure_enough_space(p.sections, ZeroSection, count,
                                   p.sections_capacity)
  IN [p EXCEPT !.sections = [grown.mem EXCEPT ![count].name = name],
               !.sections_count = count,
               !.sections_capacity = grown.capacity]

\* Push(*last, commands); *Back(*last, commands) = cmd
PushCommand(s, cmd) ==
  LET count == s.commands_count + 1
      grown == ensure_enough_space(s.commands, ZeroCommand, count,
                                   s.commands_capacity)
  IN [s EXCEPT !.commands = [grown.mem EXCEPT ![count] = cmd],
               !.commands_count = count,
               !.commands_capacity = grown.capacity]

\* variant: the command goes to the first section instead of the last
AppendToLast_First(p, cmd) ==
  [p EXCEPT !.sections[1] = PushCommand(p.sections[1], cmd)]

\* Section *last = Back(page, sections); Push(*last, commands); ...
AppendToLast(p, cmd) ==
  [p EXCEPT !.sections[p.sections_count] =
              PushCommand(p.sections[p.sections_count], cmd)]

(***************************************************************************)
(* The .TH title tokenizer: the for loop of parse_page, i 0-based.         *)
(***************************************************************************)
\* variant: the end of the line is not a field boundary
RECURSIVE TitleLoop_NoEol(_, _, _, _, _, _)
TitleLoop_NoEol(line, n, cursor, start, escape, title) ==
  IF ~(n < Len(line) /\ cursor < Title_Fields) THEN title
  ELSE IF ~escape /\ line[n + 1] = " "
       THEN TitleLoop_NoEol(line, n + 1, cursor + 1, n, escape,
              [title EXCEPT ![cursor + 1] = sv_trim(SubSeq(line, start + 1, n + 1))])
       ELSE IF line[n + 1] = "\\"
            THEN TitleLoop_NoEol(line, n + 1, cursor, start, TRUE, title)
            ELSE TitleLoop_NoEol(line, n + 1, cursor, start, FALSE, title)

\* variant: the last field is ended by the end of the line only
RECURSIVE TitleLoop_Absorb(_, _, _, _, _, _)
TitleLoop_Absorb(line, n, cursor, start, escape, title) ==
  IF ~(n < Len(line) /\ cursor < Title_Fields) THEN title
  ELSE IF (~escape /\ line[n + 1] = " " /\ cursor + 1 < Title_Fields) \/ n + 1 = Len(line)
       THEN TitleLoop_Absorb(line, n + 1, cursor + 1, n, escape,
              [title EXCEPT ![cursor + 1] = sv_trim(SubSeq(line, start + 1, n + 1))])
       ELSE IF line[n + 1] = "\\"
            THEN TitleLoop_Absorb(line, n + 1, cursor, start, TRUE, title)
            ELSE TitleLoop_Absorb(line, n + 1, cursor, start, FALSE, title)

RECURSIVE TitleLoop(_, _, _, _, _, _)
TitleLoop(line, n, cursor, start, escape, title) ==
  IF ~(n < Len(line) /\ cursor < Title_Fields) THEN title
  ELSE IF (~escape /\ line[n + 1] = " ") \/ n + 1 = Len(line)
       THEN TitleLoop(line, n + 1, cursor + 1, n, escape,
              [title EXCEPT ![cursor + 1] = sv_trim(SubSeq(line, start + 1, n + 1))])
       ELSE IF line[n + 1] = "\\"
            THEN TitleLoop(line, n + 1, cursor, start, TRUE, title)
            ELSE TitleLoop(line, n + 1, cursor, start, FALSE, title)

\* sv_chop_left(&line, 3); line = sv_trim_left(line); for (...) ...
ParseTitle(title, line) ==
  TitleLoop(sv_trim_left(sv_chop_left(line, 3)), 0, 0, 0, FALSE, title)

(***************************************************************************)
(* Input files.  A file is a sequence of lines; read_entire_file gives the *)
(* lines each ended by a newline, the last newline being optional.         *)
(***************************************************************************)
L_TH == <<".", "T", "H", " ", "A", " ", "B">>
L_SH_NAME == <<".", "S", "H", " ", "N", "A", "M", "E">>
L_SH_B == <<".", "S", "H", "\t", " ", "B">>
L_LN_EXAMPLE == <<".", "L", "N", " ", "h", "t", "t", "p", "s", ":", "/", "/", "e", "x", "a", "m", "p", "l", "e", ".", "c", "o", "m", " ", "E", "x", "a", "m", "p", "l", "e">>
L_LN_WORDS == <<".", "L", "N", " ", "u", " ", " ", "v", " ", "w">>
L_LN_BARE == <<".", "L", "N">>
L_UNKNOWN == <<".", "X", "X", " ", "y">>
L_DOT == <<".">>
L_TEXT == <<"h", "e", "l", "l", "o", " ", "w", "o", "r", "l", "d">>
L_EMPTY == <<>>
L_BLANK == <<" ", "\t">>

Lines == {L_TH, L_SH_NAME, L_SH_B, L_LN_EXAMPLE, L_LN_WORDS, L_LN_BARE,
          L_UNKNOWN, L_DOT, L_TEXT, L_EMPTY, L_BLANK}

Digit == <<"0", "1", "2", "3", "4", "5", "6", "7", "8", "9">>

SHLine(k) == <<".", "S", "H", " ", "S", Digit[(k % 10) + 1]>>
TextLine(k) == <<"t", Digit[(k % 10) + 1]>>
LNLine(k) == <<".", "L", "N", " ", "u", Digit[(k % 10) + 1], " ", "v">>

\* a sections followed by b commands of the last one, then (t = 1) one more
\* section with a single line
LongFile(a, b, c, t) ==
  [k \in 1..a |-> SHLine(k)]
    \o [k \in 1..b |-> CASE (k + c) % 3 = 0 -> TextLine(k)
                           [] (k + c) % 3 = 1 -> <<>>
                           [] OTHER -> LNLine(k)]
    \o (IF t = 1 THEN <<SHLine(a + 1), TextLine(0)>> ELSE <<>>)

ShortFiles == UNION {[1..n -> Lines] : n \in 0..MaxLines}

LongFiles == {LongFile(a, b, c, t) :
                a \in 1..MaxRep, b \in 0..MaxRep, c \in 0..2, t \in 0..1}

RECURSIVE Join(_, _)
Join(ls, nl) ==
  IF ls = <<>> THEN <<>>
  ELSE IF Len(ls) = 1 THEN (IF nl THEN ls[1] \o <<"\n">> ELSE ls[1])
       ELSE ls[1] \o <<"\n">> \o Join(Tail(ls), nl)

\* the newline choices under which the text has exactly the lines ls
Newlines(ls) ==
  IF ls = <<>> THEN {FALSE}
  ELSE IF ls[Len(ls)] = <<>> THEN {TRUE} ELSE {TRUE, FALSE}

Start(f, nl) ==
  /\ file = f
  /\ src = Join(f, nl)
  /\ page = ZeroPage
  /\ pc = "parse"
  /\ err = <<>>
  /\ out = <<>>
  /\ wild = <<>>
  /\ i = 0
  /\ j = 0

Init == \E f \in ShortFiles \cup LongFiles : \E nl \in Newlines(f) : Start(f, nl)

(***************************************************************************)
(* parse_page: one action per branch of the loop body.                     *)
(***************************************************************************)
Dot == <<".">>
TH == <<".", "T", "H">>
SH == <<".", "S", "H">>
LN == <<".", "L", "N">>

line == sv_chop_by_delim(src, "\n").result
rest == sv_chop_by_delim(src, "\n").rest

InLoop == pc = "parse" /\ src # <<>>

Diag(fmt, args) == [fmt |-> fmt, args |-> args]

StepTH ==
  /\ InLoop
  /\ sv_starts_with(line, TH)
  /\ page' = [page EXCEPT !.title = ParseTitle(page.title, line)]
  /\ src' = rest
  /\ UNCHANGED <<file, pc, err, out, wild, i, j>>

StepSH ==
  /\ InLoop
  /\ ~sv_starts_with(line, TH)
  /\ sv_starts_with(line, SH)
  /\ page' = PushSection(page, sv_trim_left(sv_chop_left(line, 3)))
  /\ src' = rest
  /\ UNCHANGED <<file, pc, err, out, wild, i, j>>

IsLN == /\ ~sv_starts_with(line, TH)
        /\ ~sv_starts_with(line, SH)
        /\ sv_starts_with(line, LN)

StepLN ==
  /\ InLoop
  /\ IsLN
  /\ page.sections_count > 0
  /\ page' = AppendToLast(page, [type |-> Link, value |-> sv_chop_left(line, 3)])
  /\ src' = rest
  /\ UNCHANGED <<file, pc, err, out, wild, i, j>>

\* Back(page, sections) with sections_count = 0 is sections[-1] of a null
\* array: the access through it is undefined.  Either the process is
\* killed by the memory fault, or the store lands outside the Page and
\* parsing goes on.
StepLNNoSection ==
  /\ InLoop
  /\ IsLN
  /\ page.sections_count = 0
  /\ \/ /\ pc' = "segv"
        /\ UNCHANGED <<src, wild>>
     \/ /\ wild' = Append(wild, [type |-> Link, value |-> sv_chop_left(line, 3)])
        /\ src' = rest
        /\ UNCHANGED pc
  /\ UNCHANGED <<file, page, err, out, i, j>>

IsUnknown == /\ ~sv_starts_with(line, TH)
             /\ ~sv_starts_with(line, SH)
             /\ ~sv_starts_with(line, LN)
             /\ sv_starts_with(line, Dot)

\* variant: no continue after the warning, the line goes on as body text
StepUnknown_FallThrough ==
  /\ InLoop
  /\ IsUnknown
  /\ err' = Append(err, Diag("%s: warning: unrecognized command: %s\n", <<line>>))
  /\ page' = IF page.sections_count = 0 THEN page
             ELSE AppendToLast(page, [type |-> Text, value |-> line])
  /\ pc' = IF page.sections_count = 0 THEN "exit1" ELSE pc
  /\ src' = rest
  /\ UNCHANGED <<file, out, wild, i, j>>

StepUnknown ==
  /\ InLoop
  /\ IsUnknown
  /\ err' = Append(err, Diag("%s: warning: unrecognized command: %s\n", <<line>>))
  /\ src' = rest
  /\ UNCHANGED <<file, page, pc, out, wild, i, j>>

IsBody == ~sv_starts_with(line, Dot)

\* variant: the error is reported but the process does not exit
StepTextNoSection_NoExit ==
  /\ InLoop
  /\ IsBody
  /\ page.sections_count = 0
  /\ err' = Append(err, Diag("%s: error: trying to add text without specifing section header .SH\n", <<>>))
  /\ src' = rest
  /\ UNCHANGED <<file, pc, page, out, wild, i, j>>

StepTextNoSection ==
  /\ InLoop
  /\ IsBody
  /\ page.sections_count = 0
  /\ err' = Append(err, Diag("%s: error: trying to add text without specifing section header .SH\n", <<>>))
  /\ pc' = "exit1"
  /\ UNCHANGED <<file, src, page, out, wild, i, j>>

StepText ==
  /\ InLoop
  /\ IsBody
  /\ page.sections_count # 0
  /\ page' = AppendToLast(page, [type |-> Text, value |-> line])
  /\ src' = rest
  /\ UNCHANGED <<file, pc, err, out, wild, i, j>>

\* while (src.count != 0) ends; return page; main calls print_page_to
ParseReturn ==
  /\ pc = "parse"
  /\ src = <<>>
  /\ pc' = "print"
  /\ UNCHANGED <<file, src, page, err, out, wild, i, j>>

(***************************************************************************)
(* print_page_to and print_link_to.  Every fprintf is one record of out:   *)
(* its format string and its String_View arguments.                        *)
(***************************************************************************)
background_color == <<"3", "0", "0">>
text_color == <<"4", "5">>
accent_color == <<"1", "6", "8">>
\* the content of the theme file, embedded as it is
theme_css == <<"c", "s", "s">>

\* variant: the payload is not trimmed before it is split
print_link_to_Untrimmed(link) ==
  LET chopped == sv_chop_by_delim(link, " ")
      href == sv_trim(chopped.result)
      label == sv_trim(chopped.rest)
  IN Diag("<a href=\"%s\">%s</a>", <<href, label>>)

print_link_to(link) ==
  LET trimmed == sv_trim(link)
      chopped == sv_chop_by_delim(trimmed, " ")
      href == sv_trim(chopped.result)
      label == sv_trim(chopped.rest)
  IN Diag("<a href=\"%s\">%s</a>", <<href, label>>)

\* variant: only the empty content is a paragraph break
print_text_EmptyOnly(value) ==
  IF Len(value) = 0
  THEN Diag("<br /><br />\n", <<>>)
  ELSE Diag("%s\n", <<value>>)

print_text(value) ==
  IF Len(sv_trim(value)) = 0
  THEN Diag("<br /><br />\n", <<>>)
  ELSE Diag("%s\n", <<value>>)

PrintHead ==
  /\ pc = "print"
  /\ out' = out \o
       << Diag("<!DOCTYPE html>\n<html>\n<head>\n<meta charset=\"utf-8\" />\n", <<>>),
          Diag("<title>%s</title>\n", <<page.title[5]>>),
          Diag("<style>\n", <<>>),
          Diag(":root { --background-color: %sdeg; --text-color: %sdeg; --accent-color: %sdeg; }",
               <<background_color, text_color, accent_color>>),
          Diag("</style>\n", <<>>),
          Diag("<style>%s</style>\n", <<theme_css>>),
          Diag("</head>\n", <<>>),
          Diag("<body>\n", <<>>),
          Diag("<div class=\"content\">\n", <<>>),
          Diag("<header>\n", <<>>),
          Diag("<div>%s(%s)</div>\n", <<page.title[1], page.title[2]>>),
          Diag("<div><h1>%s</h1></div>\n", <<page.title[5]>>),
          Diag("<div>%s(%s)</div>\n", <<page.title[1], page.title[2]>>),
          Diag("</header>\n", <<>>) >>
  /\ i' = 0
  /\ pc' = "sections"
  /\ UNCHANGED <<file, src, page, err, wild, j>>

PrintSectionOpen ==
  /\ pc = "sections"
  /\ i < page.sections_count
  /\ out' = out \o << Diag("<section>\n", <<>>),
                      Diag("<h2>%s</h2>", <<page.sections[i + 1].name>>) >>
  /\ j' = 0
  /\ pc' = "commands"
  /\ UNCHANGED <<file, src, page, err, wild, i>>

command == page.sections[i + 1].commands[j + 1]

InCommands == pc = "commands" /\ j < page.sections[i + 1].commands_count

PrintText ==
  /\ InCommands
  /\ command.type = Text
  /\ out' = Append(out, print_text(command.value))
  /\ j' = j + 1
  /\ UNCHANGED <<file, src, page, pc, err, wild, i>>

PrintLink ==
  /\ InCommands
  /\ command.type = Link
  /\ out' = Append(out, print_link_to(command.value))
  /\ j' = j + 1
  /\ UNCHANGED <<file, src, page, pc, err, wild, i>>

PrintSectionClose ==
  /\ pc = "commands"
  /\ ~(j < page.sections[i + 1].commands_count)
  /\ out' = Append(out, Diag("</section>\n", <<>>))
  /\ i' = i + 1
  /\ pc' = "sections"
  /\ UNCHANGED <<file, src, page, err, wild, j>>

PrintFoot ==
  /\ pc = "sections"
  /\ ~(i < page.sections_count)
  /\ out' = out \o
       << Diag("<footer>\n", <<>>),
          Diag("<div>%s</div>\n", <<page.title[4]>>),
          Diag("<div>%s</div>\n", <<page.title[3]>>),
          Diag("<div>%s</div>\n", <<page.title[4]>>),
          Diag("</footer>\n", <<>>),
          Diag("</div>\n", <<>>),
          Diag("</body>\n", <<>>),
          Diag("</html>\n", <<>>) >>
  /\ pc' = "exit0"
  /\ UNCHANGED <<file, src, page, err, wild, i, j>>

Next ==
  \/ StepTH
  \/ StepSH
  \/ StepLN
  \/ StepLNNoSection
  \/ StepUnknown
  \/ StepTextNoSection
  \/ StepText
  \/ ParseReturn
  \/ PrintHead
  \/ PrintSectionOpen
  \/ PrintText
  \/ PrintLink
  \/ PrintSectionClose
  \/ PrintFoot

Spec == Init /\ [][Next]_vars

TypeOK ==
  /\ pc \in {"parse", "exit1", "segv", "print", "sections", "commands", "exit0"}
  /\ Len(page.sections) = page.sections_capacity
  /\ page.sections_count <= page.sections_capacity
  /\ \A k \in 1..page.sections_capacity :
       /\ Len(page.sections[k].commands) = page.sections[k].commands_capacity
       /\ page.sections[k].commands_count <= page.sections[k].commands_capacity

(***************************************************************************)
(* Reading the file's lines directly, for the statements below.            *)
(***************************************************************************)
HasPrefix3(l, a, b, c) == Len(l) >= 3 /\ l[1] = a /\ l[2] = b /\ l[3] = c
IsTHLine(l) == HasPrefix3(l, ".", "T", "H")
IsSHLine(l) == HasPrefix3(l, ".", "S", "H")
IsLNLine(l) == HasPrefix3(l, ".", "L", "N")
IsDotLine(l) == l # <<>> /\ l[1] = "."
IsBodyLine(l) == ~IsDotLine(l)
IsUnknownLine(l) == IsDotLine(l) /\ ~IsTHLine(l) /\ ~IsSHLine(l) /\ ~IsLNLine(l)
IsCommandLine(l) == IsBodyLine(l) \/ IsLNLine(l)

\* the number of lines of a text that are still to be read
Remaining(s) ==
  IF s = <<>> THEN 0
  ELSE Cardinality({m \in 1..Len(s) : s[m] = "\n"})
         + (IF s[Len(s)] = "\n" THEN 0 ELSE 1)

Consumed == Len(file) - Remaining(src)
Seen == SubSeq(file, 1, Consumed)
Cur == file[Consumed + 1]

Blank(s) == \A m \in 1..Len(s) : isspace(s[m])

\* name is what follows the .SH prefix and the whitespace after it
IsNameOf(name, l) ==
  \E k \in 3..Len(l) :
    /\ \A m \in 4..k : isspace(l[m])
    /\ name = SubSeq(l, k + 1, Len(l))
    /\ (name # <<>> => ~isspace(name[1]))

SHIndex(f) == {m \in 1..Len(f) : IsSHLine(f[m])}
NthSH(f, s) == CHOOSE m \in SHIndex(f) : Cardinality({n \in SHIndex(f) : n < m}) = s - 1
EndOfSection(f, s) == IF s < Cardinality(SHIndex(f)) THEN NthSH(f, s + 1) ELSE Len(f) + 1

CommandOf(l) ==
  IF IsLNLine(l) THEN [type |-> Link, value |-> SubSeq(l, 4, Len(l))]
                 ELSE [type |-> Text, value |-> l]

\* the commands the lines of section s stand for, in line order
Expected(f, s) ==
  LET sel == SelectSeq(SubSeq(f, NthSH(f, s) + 1, EndOfSection(f, s) - 1), IsCommandLine)
  IN [k \in 1..Len(sel) |-> CommandOf(sel[k])]

Commands(s) == SubSeq(page.sections[s].commands, 1, page.sections[s].commands_count)

RECURSIVE TotalCommands(_)
TotalCommands(s) == IF s = 0 THEN 0 ELSE page.sections[s].commands_count + TotalCommands(s - 1)

\* no access through sections[-1] has happened, no fatal exit either
NoFault == wild = <<>> /\ pc \notin {"exit1", "segv"}
ParsedOK == NoFault /\ pc # "parse"

(***************************************************************************)
(* C1: a .LN line reached while no section is open makes parsing fail      *)
(* fatally: the parser stops with a reported error, and no Link command is *)
(* created or written anywhere.                                            *)
(***************************************************************************)
C1_LinkBeforeSectionIsFatal ==
  [][(InLoop /\ IsLNLine(Cur) /\ page.sections_count = 0)
       => /\ pc' = "exit1"
          /\ Len(err') = Len(err) + 1
          /\ wild' = wild
          /\ page' = page]_vars

(***************************************************************************)
(* C2: a line that does not start with "." (an empty line included),       *)
(* reached while no section is open, aborts parsing at once with a         *)
(* reported error: no later line is processed, nothing is rendered.        *)
(***************************************************************************)
C2_TextBeforeSectionAborts ==
  [][/\ (InLoop /\ IsBodyLine(Cur) /\ page.sections_count = 0)
          => /\ pc' = "exit1"
             /\ Len(err') = Len(err) + 1
             /\ src' = src
             /\ page' = page
             /\ out' = <<>>
     /\ pc # "exit1"]_vars

C2_Witness ==
  /\ pc = "exit1"
  /\ IsBodyLine(Cur)
  /\ Cur = <<>>
  /\ Consumed + 1 < Len(file)
  /\ page.sections_count = 0
  /\ out = <<>>

(***************************************************************************)
(* C8: a line starting with "." that is none of .TH, .SH, .LN is dropped   *)
(* with a warning, section open or not: title, sections and commands are   *)
(* unchanged and parsing goes on with the next line.                       *)
(***************************************************************************)
C8_UnknownDirectiveDropped ==
  [][(InLoop /\ IsUnknownLine(Cur))
       => /\ page' = page
          /\ pc' = "parse"
          /\ Remaining(src') = Remaining(src) - 1
          /\ err' = Append(err, Diag("%s: warning: unrecognized command: %s\n", <<Cur>>))
          /\ out' = out
          /\ wild' = wild]_vars

C8_Witness ==
  /\ pc = "exit0"
  /\ Len(file) = 3
  /\ IsSHLine(file[1])
  /\ IsUnknownLine(file[2])
  /\ IsBodyLine(file[3])
  /\ Len(err) = 1
  /\ Commands(1) = <<[type |-> Text, value |-> file[3]]>>

(***************************************************************************)
(* C3: the sections are exactly the .SH lines read so far, one section per *)
(* line and in the same order (so, after a parse without fault, the .SH    *)
(* lines of the whole file); a step of parsing only adds a section at the  *)
(* end and never removes, reorders or renames one.                         *)
(***************************************************************************)
SectionsMatch(f) ==
  LET sh == SelectSeq(f, IsSHLine)
  IN /\ page.sections_count = Len(sh)
     /\ \A k \in 1..Len(sh) : IsNameOf(page.sections[k].name, sh[k])

SectionsAppendOnly ==
  /\ page.sections_count' \in {page.sections_count, page.sections_count + 1}
  /\ \A k \in 1..page.sections_count :
       page.sections[k].name = page.sections'[k].name

C3_SectionsAreSHLines ==
  /\ [](SectionsMatch(Seen) /\ (ParsedOK => SectionsMatch(file)))
  /\ [][SectionsAppendOnly]_vars

C3_Witness ==
  /\ pc = "exit0"
  /\ wild = <<>>
  /\ page.sections_count > InitialCapacity
  /\ page.sections[1].name # page.sections[2].name
  /\ SectionsMatch(file)

(***************************************************************************)
(* C4: after a parse without fault every body-text line and every .LN line *)
(* is exactly one command of the section opened by the nearest .SH line    *)
(* above it; each section's commands are those lines between its .SH line  *)
(* and the next one (or the end), in line order; a section is opened with  *)
(* zero commands.                                                          *)
(***************************************************************************)
CommandsMatch(f) ==
  /\ \A s \in 1..page.sections_count : Commands(s) = Expected(f, s)
  /\ TotalCommands(page.sections_count)
       = Cardinality({m \in 1..Len(f) : IsCommandLine(f[m])})

OpensEmpty ==
  page.sections_count' = page.sections_count + 1
    => page.sections'[page.sections_count'].commands_count = 0

C4_CommandsBelongToOpenSection ==
  /\ []((wild = <<>> => CommandsMatch(Seen)) /\ (ParsedOK => CommandsMatch(file)))
  /\ [][OpensEmpty]_vars

C4_Witness ==
  /\ pc = "exit0"
  /\ wild = <<>>
  /\ page.sections_count = 2
  /\ page.sections[1].commands_count > InitialCapacity
  /\ page.sections[2].commands_count = 1
  /\ \E k \in 1..page.sections[1].commands_count :
       page.sections[1].commands[k].type = Link
  /\ CommandsMatch(file)

(***************************************************************************)
(* Rendering: while the commands of section i + 1 are printed, the last j  *)
(* records of out are the renderings of its commands 1..j, in order.       *)
(***************************************************************************)
Rendered(k) == out[Len(out) - j + k]

NoEdgeSpace(s) == s # <<>> => (~isspace(s[1]) /\ ~isspace(s[Len(s)]))

\* payload = whitespace, href, gap, label, whitespace: href holds no space
\* and the gap that ends it holds the first space of the trimmed payload
SplitsLink(payload, href, label) ==
  /\ NoEdgeSpace(href)
  /\ NoEdgeSpace(label)
  /\ \A m \in 1..Len(href) : href[m] # " "
  /\ \E a \in 0..Len(payload) : \E g \in 0..Len(payload) : \E b \in 0..Len(payload) :
       /\ a + Len(href) + g + Len(label) + b = Len(payload)
       /\ Blank(SubSeq(payload, 1, a))
       /\ SubSeq(payload, a + 1, a + Len(href)) = href
       /\ Blank(SubSeq(payload, a + Len(href) + 1, a + Len(href) + g))
       /\ SubSeq(payload, a + Len(href) + g + 1, a + Len(href) + g + Len(label)) = label
       /\ Blank(SubSeq(payload, Len(payload) - b + 1, Len(payload)))
       /\ (label # <<>> => \E m \in (a + Len(href) + 1)..(a + Len(href) + g) : payload[m] = " ")
       /\ (Blank(payload) => href = <<>>)
       /\ (~Blank(payload) => href # <<>>)

HREF_EXAMPLE == <<"h", "t", "t", "p", "s", ":", "/", "/", "e", "x", "a", "m", "p", "l", "e", ".", "c", "o", "m">>
LABEL_EXAMPLE == <<"E", "x", "a", "m", "p", "l", "e">>
PAYLOAD_EXAMPLE == <<" ", "h", "t", "t", "p", "s", ":", "/", "/", "e", "x", "a", "m", "p", "l", "e", ".", "c", "o", "m", " ", "E", "x", "a", "m", "p", "l", "e">>
PAYLOAD_WORDS == <<" ", "u", " ", " ", "v", " ", "w">>

LinkRendered(payload, o) ==
  /\ o.fmt = "<a href=\"%s\">%s</a>"
  /\ Len(o.args) = 2
  /\ SplitsLink(payload, o.args[1], o.args[2])
  /\ (payload = PAYLOAD_EXAMPLE => o.args = <<HREF_EXAMPLE, LABEL_EXAMPLE>>)
  /\ (payload = PAYLOAD_WORDS => o.args = <<<<"u">>, <<"v", " ", "w">>>>)

(***************************************************************************)
(* C9: every Link command, whose payload is the untrimmed rest of its .LN  *)
(* line, is rendered as one hyperlink: the destination is the first        *)
(* space-delimited token of the payload, the visible text is all that      *)
(* follows the token, both trimmed; a label of several words is kept       *)
(* whole.                                                                  *)
(***************************************************************************)
C9_LinkRendering ==
  pc = "commands" =>
    \A k \in 1..j :
      LET c == page.sections[i + 1].commands[k]
      IN c.type = Link =>
           /\ LinkRendered(c.value, Rendered(k))
           /\ (wild = <<>> => c = Expected(file, i + 1)[k])

C9_Witness ==
  /\ pc = "commands"
  /\ wild = <<>>
  /\ j = 2
  /\ page.sections[i + 1].commands[1] = [type |-> Link, value |-> PAYLOAD_EXAMPLE]
  /\ page.sections[i + 1].commands[2] = [type |-> Link, value |-> PAYLOAD_WORDS]
  /\ Rendered(1).args = <<HREF_EXAMPLE, LABEL_EXAMPLE>>
  /\ Rendered(2).args = <<<<"u">>, <<"v", " ", "w">>>>

(***************************************************************************)
(* C10: a Text command is rendered as the paragraph break exactly when its *)
(* content is empty or only whitespace, and as its content, unescaped,     *)
(* otherwise; an empty line between two lines of a section is a Text       *)
(* command and is rendered as a paragraph break at its own position among  *)
(* the section's commands.                                                 *)
(***************************************************************************)
TextRendered(content, o) ==
  /\ (Blank(content) <=> o = Diag("<br /><br />\n", <<>>))
  /\ (~Blank(content) => o = Diag("%s\n", <<content>>))

C10_TextRendering ==
  pc = "commands" =>
    \A k \in 1..j :
      LET c == page.sections[i + 1].commands[k]
      IN /\ c.type = Text => TextRendered(c.value, Rendered(k))
         /\ (wild = <<>> /\ Expected(file, i + 1)[k].value = <<>>
               /\ Expected(file, i + 1)[k].type = Text)
              => Rendered(k) = Diag("<br /><br />\n", <<>>)

C10_Witness ==
  /\ pc = "commands"
  /\ wild = <<>>
  /\ j = 3
  /\ Len(file) = 4
  /\ IsSHLine(file[1])
  /\ file[2] = TextLine(1)
  /\ file[3] = <<>>
  /\ IsLNLine(file[4])
  /\ Rendered(1) = Diag("%s\n", <<TextLine(1)>>)
  /\ Rendered(2) = Diag("<br /><br />\n", <<>>)
  /\ Rendered(3).fmt = "<a href=\"%s\">%s</a>"

(***************************************************************************)
(* A second specification for the title tokenizer: files of one or two     *)
(* .TH lines whose remainders are tokens joined by single spaces (an empty *)
(* token gives two spaces in a row, a token ending in a backslash escapes  *)
(* the space after it).                                                    *)
(***************************************************************************)
R_EXAMPLE == <<"P", "r", "o", "g", " ", "1", " ", "2", "0", "2", "4", "-", "0", "1", "-", "0", "1", " ", "S", "o", "u", "r", "c", "e", "X", " ", "M", "y", " ", "P", "r", "o", "g", "r", "a", "m">>
R_FIVE == <<"A", " ", "B", " ", "C", " ", "D", " ", "E">>
R_ESCAPED == <<"A", "\\", " ", "B", " ", "C", " ", "D", " ", "E">>
R_EARLIER == <<"V", " ", "W", " ", "X", " ", "Y", " ", "Z">>

Tokens == {<<"A">>, <<"B", "c">>, <<"d", "\\">>, <<>>}

RECURSIVE JoinSpaces(_)
JoinSpaces(ts) ==
  IF ts = <<>> THEN <<>>
  ELSE IF Len(ts) = 1 THEN ts[1]
       ELSE ts[1] \o <<" ">> \o JoinSpaces(Tail(ts))

Remainders ==
  {JoinSpaces(ts) : ts \in UNION {[1..n -> Tokens] : n \in 0..MaxTokens}}
    \cup {R_EXAMPLE, R_FIVE, R_ESCAPED}

THLine(r) == <<".", "T", "H", " ">> \o r

THFiles == {<<THLine(r)>> : r \in Remainders}
             \cup {<<THLine(R_EARLIER), THLine(r)>> : r \in Remainders}

InitTH == \E f \in THFiles : \E nl \in Newlines(f) : Start(f, nl)

NextTH == StepTH

SpecTH == InitTH /\ [][NextTH]_vars

\* the .TH line without its prefix and the whitespace after it
RemainderOf(l) ==
  LET p == CHOOSE k \in 4..(Len(l) + 1) :
             /\ \A m \in 4..(k - 1) : isspace(l[m])
             /\ (k <= Len(l) => ~isspace(l[k]))
  IN SubSeq(l, p, Len(l))

\* the spaces of r that no backslash stands before
FreeSpaces(r) == {m \in 1..Len(r) : r[m] = " " /\ (m = 1 \/ r[m - 1] # "\\")}

\* where a field ends: at a free space, or at the last character
Boundaries(r) == FreeSpaces(r) \cup (IF r = <<>> THEN {} ELSE {Len(r)})
Boundary(r, n) == CHOOSE m \in Boundaries(r) : Cardinality({q \in Boundaries(r) : q < m}) = n - 1

IsTrimOf(t, s) ==
  /\ NoEdgeSpace(t)
  /\ \E a \in 0..Len(s) :
       /\ a + Len(t) <= Len(s)
       /\ Blank(SubSeq(s, 1, a))
       /\ SubSeq(s, a + 1, a + Len(t)) = t
       /\ Blank(SubSeq(s, a + Len(t) + 1, Len(s)))

\* r is n tokens (none empty, none with whitespace inside) with one free
\* space between each two
SimpleRemainder(r) ==
  /\ r # <<>>
  /\ \A m \in 1..Len(r) : isspace(r[m]) => m \in FreeSpaces(r)
  /\ r[1] # " " /\ r[Len(r)] # " "
  /\ \A m \in 1..(Len(r) - 1) : ~(r[m] = " " /\ r[m + 1] = " ")

TokenCount(r) == Cardinality(FreeSpaces(r)) + 1
Token(r, n) ==
  SubSeq(r, IF n = 1 THEN 1 ELSE Boundary(r, n - 1) + 1,
            IF n = TokenCount(r) THEN Len(r) ELSE Boundary(r, n) - 1)

AtTH == InLoop /\ IsTHLine(Cur)

FieldText(r, n) == SubSeq(r, IF n = 1 THEN 1 ELSE Boundary(r, n - 1), Boundary(r, n))

\* the maximal runs of characters other than the space, and where they start
WordStarts(r) == {m \in 1..Len(r) : r[m] # " " /\ (m = 1 \/ r[m - 1] = " ")}
WordStart(r, n) == CHOOSE m \in WordStarts(r) : Cardinality({q \in WordStarts(r) : q < m}) = n - 1
ManyTokens(r) == Cardinality(WordStarts(r)) > Title_Fields

F_PROG == <<"P", "r", "o", "g">>
F_DATE == <<"2", "0", "2", "4", "-", "0", "1", "-", "0", "1">>
F_SOURCEX == <<"S", "o", "u", "r", "c", "e", "X">>
F_MY_PROGRAM == <<"M", "y", " ", "P", "r", "o", "g", "r", "a", "m">>
F_MY == <<"M", "y">>

(***************************************************************************)
(* C5 (as claimed): with more than 5 space-separated tokens the fifth      *)
(* title field takes the rest of the line up to its last character:        *)
(* "Prog 1 2024-01-01 SourceX My Program" gives "My Program" as the fifth. *)
(***************************************************************************)
C5_FifthFieldAbsorbsRest ==
  [][(AtTH /\ ManyTokens(RemainderOf(Cur)))
       => LET r == RemainderOf(Cur)
          IN /\ IsTrimOf(page'.title[5], SubSeq(r, WordStart(r, 5), Len(r)))
             /\ (r = R_EXAMPLE =>
                   page'.title = <<F_PROG, <<"1">>, F_DATE, F_SOURCEX, F_MY_PROGRAM>>)]_vars

(***************************************************************************)
(* C5 (amended): with more than 5 space-separated tokens the fifth field   *)
(* does not take the rest of the line.  Every field that the line sets is  *)
(* the trimmed text up to the next space that no backslash precedes (or    *)
(* the end of the line), at most five fields are set and what follows the  *)
(* fifth is ignored; with single unescaped spaces between the tokens the   *)
(* fifth field is the fifth token alone:                                   *)
(* "Prog 1 2024-01-01 SourceX My Program" gives "My" as the fifth field.   *)
(***************************************************************************)
C5_FifthFieldIsFifthToken ==
  [][(AtTH /\ ManyTokens(RemainderOf(Cur)))
       => LET r == RemainderOf(Cur)
              set == Cardinality(Boundaries(r))
          IN /\ \A n \in 1..Title_Fields :
                  IF n <= set THEN IsTrimOf(page'.title[n], FieldText(r, n))
                              ELSE page'.title[n] = page.title[n]
             /\ (SimpleRemainder(r) => page'.title[5] = Token(r, 5))
             /\ (r = R_EXAMPLE =>
                   page'.title = <<F_PROG, <<"1">>, F_DATE, F_SOURCEX, F_MY>>)]_vars

C5_Witness ==
  /\ Len(file) = 1
  /\ Consumed = 1
  /\ RemainderOf(file[1]) = R_EXAMPLE
  /\ page.title = <<F_PROG, <<"1">>, F_DATE, F_SOURCEX, F_MY>>

(***************************************************************************)
(* C6: a space right after a backslash does not end a field and the        *)
(* backslash is consumed, so no field keeps a backslash before a space:    *)
(* "A\ B C D E" gives "A B", "C", "D", "E" and an empty fifth field.       *)
(***************************************************************************)
C6_EscapeMarkerConsumed ==
  [][AtTH
       => /\ \A n \in 1..Title_Fields :
               \A m \in 1..(Len(page'.title[n]) - 1) :
                 ~(page'.title[n][m] = "\\" /\ page'.title[n][m + 1] = " ")
          /\ (Consumed = 0 /\ RemainderOf(Cur) = R_ESCAPED =>
                page'.title = <<<<"A", " ", "B">>, <<"C">>, <<"D">>, <<"E">>, <<>>>>)]_vars

(***************************************************************************)
(* C7 (as claimed): after any .TH line whose remainder is k <= 5 non-empty *)
(* tokens with single unescaped spaces between them, fields 1..k are the   *)
(* tokens in order and the fields after the k-th are empty.                *)
(***************************************************************************)
IsTokens(r) == SimpleRemainder(r) /\ TokenCount(r) <= Title_Fields

C7_TokensThenEmpty ==
  [][(AtTH /\ IsTokens(RemainderOf(Cur)))
       => LET r == RemainderOf(Cur)
          IN \A n \in 1..Title_Fields :
               page'.title[n] = IF n <= TokenCount(r) THEN Token(r, n) ELSE <<>>]_vars

(***************************************************************************)
(* C7 (amended): after any .TH line whose remainder is k <= 5 non-empty    *)
(* tokens with single unescaped spaces between them, fields 1..k are the   *)
(* tokens in order, the last one ended by the end of the line, and the     *)
(* fields after the k-th keep the value they had before the line: empty    *)
(* unless an earlier .TH line set them.                                    *)
(***************************************************************************)
C7_TokensThenUntouched ==
  [][(AtTH /\ IsTokens(RemainderOf(Cur)))
       => LET r == RemainderOf(Cur)
          IN /\ \A n \in 1..Title_Fields :
                  page'.title[n] = IF n <= TokenCount(r) THEN Token(r, n) ELSE page.title[n]
             /\ (Consumed = 0 => \A n \in (TokenCount(r) + 1)..Title_Fields : page'.title[n] = <<>>)
             /\ (r = R_FIVE => page'.title = <<<<"A">>, <<"B">>, <<"C">>, <<"D">>, <<"E">>>>)]_vars

C7_Witness ==
  /\ Len(file) = 2
  /\ Consumed = 2
  /\ RemainderOf(file[2]) = <<"A", " ", "B", "c">>
  /\ page.title = <<<<"A">>, <<"B", "c">>, <<"X">>, <<"Y">>, <<"Z">>>>

====
